---- MODULE Spec2Model ----
(***************************************************************************)
(* A model of the REST lookup operations of the Confluence client          *)
(* (src/confluence/confluence.py): check_response, get_page, get_pages,    *)
(* get_page_id, get_spaces and get_child_pages, run against a server that  *)
(* holds an ordered collection of content entries and of spaces and        *)
(* answers each GET with one page of it; and of the constructor, which     *)
(* writes the connection details into the class attribute DEFAULT_OPTIONS. *)
(*                                                                         *)
(* Python values are tagged records: None, a raised exception, or a value. *)
(* JSON objects are records whose DOMAIN is the set of keys present, JSON  *)
(* lists are sequences, JSON numbers and strings are tagged scalars, and   *)
(* strings that the code converts or concatenates are sequences of         *)
(* characters / chunks.  The JSON key `_links` is the field `links`.       *)
(***************************************************************************)
EXTENDS Integers, Sequences, FiniteSets, TLC

VARIABLES server, call, requests, response, validation, result,
          DEFAULT_OPTIONS, self

vars == <<server, call, requests, response, validation, result,
          DEFAULT_OPTIONS, self>>

----------------------------------------------------------------------------
(* Bounds of the model. *)

\* Largest number of entries in the server's content collection.
MaxTotal == 60
\* Largest number of spaces on the server.
MaxSpaces == 26
\* Largest value of the caller's `limit` argument.
MaxLimit == 40
\* The page size the server applies to a request that names no limit.
ServerDefaultLimit == 25

----------------------------------------------------------------------------
(* Python values. *)

None == [t |-> "None"]
Raise(e) == [t |-> "raise", e |-> e]
Val(v) == [t |-> "val", v |-> v]

\* JSON scalars: a number and a string keep the same record shape.
JInt(n) == [type |-> "int", n |-> n, s |-> <<>>]
JStr(s) == [type |-> "str", n |-> 0, s |-> s]

Min(a, b) == IF a <= b THEN a ELSE b

Digit == <<"0", "1", "2", "3", "4", "5", "6", "7", "8", "9">>

IsDigit(c) == \E i \in 1..10 : Digit[i] = c

DigitValue(c) == (CHOOSE i \in 1..10 : Digit[i] = c) - 1

\* str(n) for a non-negative integer: its decimal digits.
RECURSIVE ToDigits(_)
ToDigits(n) ==
    IF n < 10 THEN <<Digit[n + 1]>>
    ELSE Append(ToDigits(n \div 10), Digit[(n % 10) + 1])

\* The value of a non-empty string of decimal digits.
RECURSIVE FromDigits(_)
FromDigits(s) ==
    IF Len(s) = 0 THEN 0
    ELSE 10 * FromDigits(SubSeq(s, 1, Len(s) - 1)) + DigitValue(s[Len(s)])

\* int(x): a number is itself, a string is parsed, anything else fails.
PyInt(x) ==
    IF x.t = "raise" THEN x
    ELSE IF x.t = "None" THEN Raise("TypeError")
    ELSE IF x.v.type = "int" THEN Val(x.v.n)
    ELSE IF Len(x.v.s) > 0 /\ \A i \in 1..Len(x.v.s) : IsDigit(x.v.s[i])
         THEN Val(FromDigits(x.v.s))
    ELSE Raise("ValueError")

\* str(x) left out: the value keeps the type the server gave it.
PyStr_keeps_type(x) ==
    IF x.t = "raise" THEN x
    ELSE IF x.t = "None" THEN Val(JStr(<<"N", "o", "n", "e">>))
    ELSE Val(x.v)

\* str(x): a string, made of the decimal digits of a number, of a string
\* itself, and of "None" for None.
PyStr(x) ==
    IF x.t = "raise" THEN x
    ELSE IF x.t = "None" THEN Val(JStr(<<"N", "o", "n", "e">>))
    ELSE IF x.v.type = "int" THEN Val(JStr(ToDigits(x.v.n)))
    ELSE Val(JStr(x.v.s))

\* d.get(k): None when the key is absent; AttributeError when d is None.
Get(d, k) ==
    IF d.t = "raise" THEN d
    ELSE IF d.t = "None" THEN Raise("AttributeError")
    ELSE IF k \in DOMAIN d.v THEN Val(d.v[k])
    ELSE None

\* d[k]: KeyError when the key is absent; TypeError when d is None.
Item(d, k) ==
    IF d.t = "raise" THEN d
    ELSE IF d.t = "None" THEN Raise("TypeError")
    ELSE IF k \in DOMAIN d.v THEN Val(d.v[k])
    ELSE Raise("KeyError")

\* l[-1] in place of l[0].
First_takes_last(l) ==
    IF l.t = "raise" THEN l
    ELSE IF l.t = "None" THEN Raise("TypeError")
    ELSE IF Len(l.v) = 0 THEN Raise("IndexError")
    ELSE Val(l.v[Len(l.v)])

\* l[0]: IndexError when the list is empty.
First(l) ==
    IF l.t = "raise" THEN l
    ELSE IF l.t = "None" THEN Raise("TypeError")
    ELSE IF Len(l.v) = 0 THEN Raise("IndexError")
    ELSE Val(l.v[1])

\* a + b on strings: TypeError when b is None.
Concat(a, b) ==
    IF a.t = "raise" THEN a
    ELSE IF b.t = "raise" THEN b
    ELSE IF a.t = "None" \/ b.t = "None" THEN Raise("TypeError")
    ELSE Val(a.v \o b.v)

\* The first exception raised while evaluating expressions in order, or None.
RECURSIVE FirstRaise(_)
FirstRaise(xs) ==
    IF Len(xs) = 0 THEN None
    ELSE IF Head(xs).t = "raise" THEN Head(xs)
    ELSE FirstRaise(Tail(xs))

----------------------------------------------------------------------------
(* The server: JSON entries, collections, requests and responses. *)

\* The dictionary d without the key k.
Drop(d, k) == [x \in (DOMAIN d) \ {k} |-> d[x]]

\* The server-supplied base link, and the web-UI link of entry i.
BaseLink == <<"http://wiki">>
WebUi(i) == <<"/display/ds/page">> \o ToDigits(i)

\* A content entry as the server sends it with expand=body.storage,version,history.
ContentEntry(i) ==
    [id |-> JStr(ToDigits(i)),
     type |-> "page",
     status |-> "current",
     title |-> <<"page">> \o ToDigits(i),
     body |-> [storage |-> [value |-> <<"<p>">> \o ToDigits(i),
                            representation |-> "storage"],
               expandable |-> "view"],
     history |-> [latest |-> TRUE,
                  createdDate |-> <<"2015-01-0">> \o ToDigits(i),
                  createdBy |-> [username |-> <<"creator">> \o ToDigits(i),
                                 userKey |-> "k"]],
     version |-> [when |-> <<"2016-01-0">> \o ToDigits(i),
                  number |-> JInt(i),
                  by |-> [username |-> <<"modifier">> \o ToDigits(i),
                          userKey |-> "k"]],
     links |-> [webui |-> WebUi(i), self |-> "self"]]

\* The entry e with its body present down to a level: 0 whole, 1 no body,
\* 2 no body.storage, 3 no body.storage.value.
WithBody(e, level) ==
    CASE level = 0 -> e
      [] level = 1 -> Drop(e, "body")
      [] level = 2 -> [e EXCEPT !.body = Drop(@, "storage")]
      [] OTHER     -> [e EXCEPT !.body.storage = Drop(@, "value")]

\* 0 whole, 1 no history, 2 no history.createdBy, 3 no createdBy.username.
WithCreator(e, level) ==
    CASE level = 0 -> e
      [] level = 1 -> Drop(e, "history")
      [] level = 2 -> [e EXCEPT !.history = Drop(@, "createdBy")]
      [] OTHER     -> [e EXCEPT !.history.createdBy = Drop(@, "username")]

\* 0 whole, 1 no version.by, 2 no version.by.username.
WithModifier(e, level) ==
    CASE level = 0 -> e
      [] level = 1 -> [e EXCEPT !.version = Drop(@, "by")]
      [] OTHER     -> [e EXCEPT !.version.by = Drop(@, "username")]

\* Entries that have every required field and lack any subset of the optional parts.
OptionalShapes(i) ==
    {WithModifier(WithCreator(WithBody(ContentEntry(i), b), c), m) :
        b \in 0..3, c \in 0..3, m \in 0..2}

\* Entries with a required field absent or of another type.
RequiredShapes(i) ==
    LET e == ContentEntry(i) IN
    {Drop(e, "id"), Drop(e, "title"), Drop(e, "links"), Drop(e, "version"),
     [e EXCEPT !.links = Drop(@, "webui")],
     [e EXCEPT !.version = Drop(@, "number")],
     [e EXCEPT !.version.number = JStr(ToDigits(i))],
     [e EXCEPT !.id = JInt(i)],
     [e EXCEPT !.id = JStr(<<"a">>)],
     [e EXCEPT !.id = JStr(<<"1", "a">>)],
     [e EXCEPT !.id = JStr(<<>>)]}

EntryShapes(i) == OptionalShapes(i) \cup RequiredShapes(i)

\* The first n well-formed entries, in server order.
ContentList(n) == [i \in 1..n |-> ContentEntry(i)]

\* Collections the server may hold for a query: any number of well-formed
\* entries, or one entry of any shape alone, before or after a well-formed one.
Contents ==
    {ContentList(n) : n \in 0..MaxTotal}
    \cup {<<e>> : e \in EntryShapes(1)}
    \cup {<<e, ContentEntry(2)>> : e \in EntryShapes(1)}
    \cup {<<ContentEntry(1), e>> : e \in EntryShapes(2)}

SpaceEntry(i) ==
    [key |-> <<"SP">> \o ToDigits(i),
     name |-> <<"Space ">> \o ToDigits(i),
     type |-> "global"]

SpaceList(n) == [i \in 1..n |-> SpaceEntry(i)]

Servers ==
    {[content |-> c, spaces |-> SpaceList(2)] : c \in Contents}
    \cup {[content |-> ContentList(1), spaces |-> SpaceList(n)] : n \in 0..MaxSpaces}


\* An optional integer argument or query parameter.
NotGiven == [given |-> FALSE, n |-> 0]
Given(n) == [given |-> TRUE, n |-> n]

\* A request URL: the path before any '?', whether a '?' follows it, and the
\* paging parameters of the query string.  The other query parameters
\* (spaceKey, title, type, expand) select the collection the server pages.
Url(path, query) ==
    [path |-> path, query |-> query, start |-> NotGiven, limit |-> NotGiven]

\* request + '&limit={limit}': a query parameter when the URL has a query
\* string, otherwise more characters of the path.
AppendLimit(url, n) ==
    IF url.query THEN [url EXCEPT !.limit = Given(n)]
    ELSE [url EXCEPT !.path = @ \o <<"&limit=">> \o ToDigits(n)]

ChildPagePath == <<"content", "/", "root_page_id", "/child/page">>

\* The collection a path names, or "unknown" for a path the server does not serve.
Route(url) ==
    IF url.path = <<"content">> \/ url.path = ChildPagePath THEN "content"
    ELSE IF url.path = <<"space">> THEN "spaces"
    ELSE "unknown"

\* The page of coll a request asks for: `limit` entries from offset `start`.
Page(coll, url) ==
    LET st == IF url.start.given THEN url.start.n ELSE 0
        lim == IF url.limit.given THEN url.limit.n ELSE ServerDefaultLimit
    IN SubSeq(coll, st + 1, Min(st + lim, Len(coll)))

\* Response bodies: a list-shaped payload (with or without the base link), a
\* single-entity payload (no `results` key), an error document, and a body
\* that is not JSON.
ListBody(page, withBase) ==
    [results |-> page,
     size |-> Len(page),
     links |-> IF withBase THEN [base |-> BaseLink, self |-> "self"]
               ELSE [context |-> "", self |-> "self"]]

EntityBody == [ContentEntry(1) EXCEPT !.links = [base |-> BaseLink,
                                                  webui |-> WebUi(1),
                                                  self |-> "self"]]

ErrorBody(status) == [statusCode |-> status, message |-> "error"]

NotJson == [text |-> "<html>"]

FailureStatus == {404, 500}

\* Every response the transport may hand back for a request.
Responses(srv, url) ==
    IF Route(url) = "unknown"
    THEN {[status |-> 404, decodable |-> TRUE, data |-> ErrorBody(404)],
          [status |-> 404, decodable |-> FALSE, data |-> NotJson]}
    ELSE LET page == Page(srv[Route(url)], url) IN
         {[status |-> 200, decodable |-> TRUE, data |-> b] :
             b \in {ListBody(page, TRUE), ListBody(page, FALSE), EntityBody}}
         \cup {[status |-> 200, decodable |-> FALSE, data |-> NotJson]}
         \cup {[status |-> s, decodable |-> TRUE, data |-> ErrorBody(s)] :
                 s \in FailureStatus}
         \cup {[status |-> s, decodable |-> TRUE, data |-> ListBody(page, TRUE)] :
                 s \in FailureStatus}
         \cup {[status |-> s, decodable |-> FALSE, data |-> NotJson] :
                 s \in FailureStatus}

\* requests.Response.ok: the status is below 400.
Ok(resp) == resp.status < 400

\* requests.Response.json(): the decoded body, or ValueError.
Json(resp) == IF resp.decodable THEN Val(resp.data) ELSE Raise("ValueError")


----------------------------------------------------------------------------
(* The client's operations. *)

\* A returned value with the Python type it has.
Ret(kind, v) == [t |-> "val", kind |-> kind, v |-> v]

\* check_response without its test of response.ok.
check_response_skips_ok(resp) ==
    LET first == First(Item(Json(resp), "results")) IN
    IF first.t = "raise" /\ first.e = "IndexError"
    THEN [out |-> Ret("bool", FALSE), log |-> "Retrieved an empty list"]
    ELSE IF first.t = "raise"
    THEN [out |-> first, log |-> "none"]
    ELSE [out |-> Ret("bool", TRUE), log |-> "none"]

\* Confluence.check_response: what it returns or raises, and the branch it
\* logged.  `resp` is a Response; connection.get never returns None.
check_response(resp) ==
    IF ~Ok(resp)
    THEN [out |-> Ret("bool", Ok(resp)), log |-> "Response not ok"]
    ELSE LET first == First(Item(Json(resp), "results")) IN
         IF first.t = "raise" /\ first.e = "IndexError"
         THEN [out |-> Ret("bool", FALSE), log |-> "Retrieved an empty list"]
         ELSE IF first.t = "raise"
         THEN [out |-> first, log |-> "none"]
         ELSE [out |-> Ret("bool", TRUE), log |-> "none"]

NotChecked == [out |-> None, log |-> "not called"]

\* The `space` argument of the lookups.
SpaceArg == <<"ds">>

\* Confluence.get_page after the GET: the value returned or the exception raised.
get_page(resp, full) ==
    IF ~Ok(resp) THEN None
    ELSE LET json == Json(resp) IN
    IF json.t = "raise" THEN json
    ELSE IF full THEN Ret("json", json.v)
    ELSE LET base_url == Item(Item(json, "links"), "base")
             entry == First(Item(json, "results"))
             content == Get(Get(Get(entry, "body"), "storage"), "value")
             status == Get(entry, "status")
             created == Get(Get(entry, "history"), "createdDate")
             creator == Get(Get(Get(entry, "history"), "createdBy"), "username")
             current == Get(Get(entry, "history"), "latest")
             id == Get(entry, "id")
             modified == Get(Get(entry, "version"), "when")
             modifier == Get(Get(Get(entry, "version"), "by"), "username")
             title == Get(entry, "title")
             url == Concat(base_url, Get(Get(entry, "links"), "webui"))
             version == PyStr(Get(Get(entry, "version"), "number"))
             raised == FirstRaise(<<base_url, entry, content, status, created,
                                    creator, current, id, modified, modifier,
                                    title, url, version>>)
         IN IF raised.t = "raise" THEN raised
            ELSE Ret("dict", [content |-> content, status |-> status,
                              created |-> created, creator |-> creator,
                              current |-> current, id |-> id,
                              modified |-> modified, modifier |-> modifier,
                              space |-> Val(SpaceArg), title |-> title,
                              url |-> url, version |-> version])

\* One element of get_pages' list comprehension.
PageRecord(base_url, entry) ==
    LET e == Val(entry)
        id == Item(e, "id")
        title == Item(e, "title")
        url == Concat(base_url, Item(Item(e, "links"), "webui"))
        version == PyStr(Item(Item(e, "version"), "number"))
        raised == FirstRaise(<<id, title, url, version>>)
    IN IF raised.t = "raise" THEN raised
       ELSE Val([id |-> id.v, space |-> SpaceArg, title |-> title.v,
                 url |-> url.v, version |-> version.v])

\* One element of get_spaces' list comprehension.
SpaceRecord(base_url, entry) ==
    LET e == Val(entry)
        key == Item(e, "key")
        name == Item(e, "name")
        type == Item(e, "type")
        url == Concat(base_url, Item(e, "key"))
        raised == FirstRaise(<<key, name, type, url>>)
    IN IF raised.t = "raise" THEN raised
       ELSE Val([key |-> key.v, name |-> name.v, type |-> type.v, url |-> url.v])

\* A list comprehension whose elements evaluate to `recs`, after base_url:
\* the list of records, or the first exception raised.
Comprehension(base_url, recs) ==
    LET raised == FirstRaise(recs) IN
    IF base_url.t = "raise" THEN base_url
    ELSE IF raised.t = "raise" THEN raised
    ELSE Ret("list", [i \in 1..Len(recs) |-> recs[i].v])

\* Confluence.get_pages after the GET, given check_response's verdict.
get_pages(resp, checked, full) ==
    IF checked.out.t = "raise" THEN checked.out
    ELSE IF ~checked.out.v THEN None
    ELSE IF full THEN Ret("json", resp.data)
    ELSE LET base_url == Item(Item(Json(resp), "links"), "base")
             entries == resp.data.results
         IN Comprehension(base_url, [i \in 1..Len(entries) |->
                                        PageRecord(base_url, entries[i])])

\* Confluence.get_page_id after the GET, given check_response's verdict.
get_page_id(resp, checked) ==
    IF checked.out.t = "raise" THEN checked.out
    ELSE IF ~checked.out.v THEN None
    ELSE LET id == PyInt(Item(First(Item(Json(resp), "results")), "id")) IN
         IF id.t = "raise" THEN id ELSE Ret("int", id.v)

\* Confluence.get_spaces after the GET, given check_response's verdict.
get_spaces(resp, checked, full) ==
    IF checked.out.t = "raise" THEN checked.out
    ELSE IF ~checked.out.v THEN None
    ELSE IF full THEN Ret("json", resp.data)
    ELSE LET base_url == Concat(Item(Item(Json(resp), "links"), "base"),
                                Val(<<"/display/">>))
             entries == resp.data.results
         IN Comprehension(base_url, [i \in 1..Len(entries) |->
                                        SpaceRecord(base_url, entries[i])])

\* The offset and the page size get_child_pages asks for.
start == 0
limit == 25

\* get_child_pages' loop over response['results']: `out` after the last
\* iteration (every iteration assigns the same two keys of the one dict).
RECURSIVE ChildLoop(_, _)
ChildLoop(out, items) ==
    IF Len(items) = 0 THEN out
    ELSE ChildLoop(Ret("dict", [title |-> Get(Val(Head(items)), "title"),
                                id |-> Get(Val(Head(items)), "id")]),
                   Tail(items))

\* Confluence.get_child_pages after the GET: .json() on whatever came back.
get_child_pages(resp) ==
    LET results == Item(Json(resp), "results") IN
    IF results.t = "raise" THEN results
    ELSE ChildLoop(Ret("empty dict", <<>>), results.v)


----------------------------------------------------------------------------
(* The class attribute and the constructor. *)

\* Confluence.DEFAULT_OPTIONS as the class body defines it.
ClassBody == [server |-> <<"http://localhost:8090">>, verify |-> TRUE]

\* d[k] = v on a dict.
SetItem(d, k, v) == [x \in (DOMAIN d) \cup {k} |-> IF x = k THEN v ELSE d[x]]

\* The default of the `url` parameter.
DefaultUrl == <<"http://localhost:8090", "/">>

\* The arguments a caller passes to the constructor.
ProfileArgs == {None, Val("confluence"), Val("other")}
UrlArgs == {DefaultUrl, BaseLink}
UsernameArgs == {None, Val("alice")}
PasswordArgs == {None, Val("secret")}

\* What find_file('config.ini') finds: no file, or a file with a [confluence]
\* section that sets `url`, whose [general] section is missing, has no
\* default-confluence-profile option, or names the profile "confluence".
NoFile == [found |-> FALSE, general |-> "none"]
ConfigFile(general) == [found |-> TRUE, general |-> general]
ConfigFiles ==
    {NoFile} \cup {ConfigFile(g) : g \in {"no section", "no option", "confluence"}}
ConfigUrl == <<"http://intranet">>

\* The profile after the lookup of the default profile: only NoOptionError
\* is caught.
DefaultProfile(profile, config_file) ==
    IF profile.t = "None" /\ config_file.found
    THEN IF config_file.general = "no section" THEN Raise("NoSectionError")
         ELSE IF config_file.general = "no option" THEN None
         ELSE Val(config_file.general)
    ELSE profile

\* The connection details the constructor ends up with: from the profile's
\* section when a profile is named (user and pass fall back to the arguments
\* by the parser's defaults), else the arguments.
Settings(profile, config_file, url, username, password) ==
    LET p == DefaultProfile(profile, config_file) IN
    IF p.t = "raise" THEN p
    ELSE IF p.t = "None"
    THEN Val([url |-> url, username |-> username, password |-> password])
    ELSE IF ~config_file.found THEN Raise("EnvironmentError")
    ELSE IF p.v # "confluence" THEN Raise("NoSectionError")
    ELSE Val([url |-> ConfigUrl, username |-> username, password |-> password])

\* options = Confluence.DEFAULT_OPTIONS binds the class's own dict, so the
\* three assignments write into it.
Options(options, st) ==
    SetItem(SetItem(SetItem(options, "server", st.url),
                    "username", st.username),
            "password", st.password)

\* The attributes the constructor sets on the instance.
Instance(options, st) ==
    [base_url |-> st.url,
     rest_url |-> st.url \o <<"/rest/api/">>,
     connection |-> [auth |-> [username |-> options["username"],
                               password |-> options["password"]]]]

\* Confluence.connection_valid on the answer to its GET: raise_for_status
\* raises for a status of 400 or more; otherwise result.ok holds.
connection_valid(resp) ==
    IF resp.status >= 400 THEN Raise("HTTPError") ELSE Ret("bool", TRUE)


----------------------------------------------------------------------------
(* The state machine: one action per call of an operation. *)

\* The values a caller passes as `limit`: None, or an integer.
Limits == {NotGiven} \cup {Given(n) : n \in 0..MaxLimit}

\* Python truthiness of the `limit` argument: None and 0 are false.
Truthy(lim) == lim.given /\ lim.n # 0

Call(op, lim, full) == [op |-> op, limit |-> lim, full |-> full]

NoCall == Call("none", NotGiven, FALSE)
NoResponse == [status |-> 0, decodable |-> FALSE, data |-> NotJson]

\* No call is in progress: the caller holds no result of an earlier call.
Idle == call = NoCall

\* The connection details of Confluence(url=<the server>).
OneClient == [url |-> BaseLink, username |-> None, password |-> None]

\* One client has been constructed against the server.
Init ==
    /\ server \in Servers
    /\ call = NoCall
    /\ requests = <<>>
    /\ response = NoResponse
    /\ validation = NotChecked
    /\ result = None
    /\ DEFAULT_OPTIONS = Options(ClassBody, OneClient)
    /\ self = Val(Instance(DEFAULT_OPTIONS, OneClient))

GetPage ==
    /\ Idle
    /\ self.t = "val"
    /\ \E full \in BOOLEAN :
         LET request == Url(<<"content">>, TRUE) IN
         \E resp \in Responses(server, request) :
           /\ call' = Call("get_page", NotGiven, full)
           /\ requests' = <<request>>
           /\ response' = resp
           /\ validation' = NotChecked
           /\ result' = get_page(resp, full)
           /\ UNCHANGED <<server, DEFAULT_OPTIONS, self>>

GetPages ==
    /\ Idle
    /\ self.t = "val"
    /\ \E lim \in Limits, full \in BOOLEAN :
         LET base == Url(<<"content">>, TRUE)
             request == IF Truthy(lim) THEN AppendLimit(base, lim.n) ELSE base
         IN \E resp \in Responses(server, request) :
           /\ call' = Call("get_pages", lim, full)
           /\ requests' = <<request>>
           /\ response' = resp
           /\ validation' = check_response(resp)
           /\ result' = get_pages(resp, check_response(resp), full)
           /\ UNCHANGED <<server, DEFAULT_OPTIONS, self>>

GetPageId ==
    /\ Idle
    /\ self.t = "val"
    /\ LET request == Url(<<"content">>, TRUE) IN
       \E resp \in Responses(server, request) :
         /\ call' = Call("get_page_id", NotGiven, FALSE)
         /\ requests' = <<request>>
         /\ response' = resp
         /\ validation' = check_response(resp)
         /\ result' = get_page_id(resp, check_response(resp))
         /\ UNCHANGED <<server, DEFAULT_OPTIONS, self>>

GetSpaces ==
    /\ Idle
    /\ self.t = "val"
    /\ \E lim \in Limits, full \in BOOLEAN :
         LET base == Url(<<"space">>, FALSE)
             request == IF Truthy(lim) THEN AppendLimit(base, lim.n) ELSE base
         IN \E resp \in Responses(server, request) :
           /\ call' = Call("get_spaces", lim, full)
           /\ requests' = <<request>>
           /\ response' = resp
           /\ validation' = check_response(resp)
           /\ result' = get_spaces(resp, check_response(resp), full)
           /\ UNCHANGED <<server, DEFAULT_OPTIONS, self>>

GetChildPages ==
    /\ Idle
    /\ self.t = "val"
    /\ LET request == [Url(ChildPagePath, TRUE) EXCEPT !.start = Given(start),
                                                        !.limit = Given(limit)]
       IN \E resp \in Responses(server, request) :
         /\ call' = Call("get_child_pages", NotGiven, FALSE)
         /\ requests' = <<request>>
         /\ response' = resp
         /\ validation' = NotChecked
         /\ result' = get_child_pages(resp)
         /\ UNCHANGED <<server, DEFAULT_OPTIONS, self>>

\* The call has returned (or raised) and the caller moves on; the client
\* keeps nothing of the call.
Return ==
    /\ ~Idle
    /\ call' = NoCall
    /\ requests' = <<>>
    /\ response' = NoResponse
    /\ validation' = NotChecked
    /\ result' = None
    /\ UNCHANGED <<server, DEFAULT_OPTIONS, self>>

Next == GetPage \/ GetPages \/ GetPageId \/ GetSpaces \/ GetChildPages \/ Return

Spec == Init /\ [][Next]_vars


\* Confluence(profile, url, username, password): an exception while reading
\* the configuration leaves everything as it was; otherwise the class's
\* DEFAULT_OPTIONS is written, and the caller gets the instance unless
\* connection_valid raises.
New ==
    /\ Idle
    /\ \E profile \in ProfileArgs, config_file \in ConfigFiles, url \in UrlArgs,
          username \in UsernameArgs, password \in PasswordArgs :
         LET st == Settings(profile, config_file, url, username, password) IN
         /\ call' = Call("__init__", NotGiven, FALSE)
         /\ validation' = NotChecked
         /\ UNCHANGED server
         /\ IF st.t = "raise"
            THEN /\ requests' = <<>>
                 /\ response' = NoResponse
                 /\ result' = st
                 /\ UNCHANGED <<DEFAULT_OPTIONS, self>>
            ELSE LET options == Options(DEFAULT_OPTIONS, st.v)
                     request == Url(<<"content">>, FALSE)
                 IN \E resp \in Responses(server, request) :
                      /\ DEFAULT_OPTIONS' = options
                      /\ requests' = <<request>>
                      /\ response' = resp
                      /\ IF connection_valid(resp).t = "raise"
                         THEN /\ result' = connection_valid(resp)
                              /\ UNCHANGED self
                         ELSE /\ result' = None
                              /\ self' = Val(Instance(options, st.v))

\* The module has been imported and no client has been constructed yet.
ClientServers ==
    {[content |-> ContentList(n), spaces |-> SpaceList(2)] : n \in 0..2}

InitClient ==
    /\ server \in ClientServers
    /\ call = NoCall
    /\ requests = <<>>
    /\ response = NoResponse
    /\ validation = NotChecked
    /\ result = None
    /\ DEFAULT_OPTIONS = ClassBody
    /\ self = None

NextClient ==
    New \/ GetPage \/ GetPages \/ GetPageId \/ GetSpaces \/ GetChildPages \/ Return

SpecClient == InitClient /\ [][NextClient]_vars


----------------------------------------------------------------------------
(* Properties. *)

\* The operations that pass the response to check_response.
Validated == call.op \in {"get_pages", "get_page_id", "get_spaces"}

\* The response body is JSON with a `results` key.
ListShaped(resp) == resp.decodable /\ "results" \in DOMAIN resp.data

\* The response is a successful list-shaped page that carries the base link.
GoodPage(resp) ==
    /\ Ok(resp)
    /\ ListShaped(resp)
    /\ "base" \in DOMAIN resp.data.links

\* The collection the operation of the current call reads.
Source ==
    IF call.op = "get_spaces" THEN server.spaces ELSE server.content

\* Every entry of the source has every field.
IntactSource ==
    IF call.op = "get_spaces" THEN Source = SpaceList(Len(Source))
    ELSE Source = ContentList(Len(Source))

\* The offset and the page size a request asks for.
Offset(url) == IF url.start.given THEN url.start.n ELSE 0
PageSize(url) == IF url.limit.given THEN url.limit.n ELSE ServerDefaultLimit

\* Two outcomes of an operation are the same value or the same exception.
SameOutcome(a, b) ==
    /\ a.t = b.t
    /\ a.t = "raise" => a.e = b.e
    /\ a.t = "val" => a.kind = b.kind /\ a.v = b.v

\* What an operation makes of a response.
Outcome(op, resp, full) ==
    CASE op = "get_page" -> get_page(resp, full)
      [] op = "get_pages" -> get_pages(resp, check_response(resp), full)
      [] op = "get_page_id" -> get_page_id(resp, check_response(resp))
      [] op = "get_spaces" -> get_spaces(resp, check_response(resp), full)
      [] OTHER -> get_child_pages(resp)

\* A successful response whose `results` list is empty.
EmptyPage == [status |-> 200, decodable |-> TRUE, data |-> ListBody(<<>>, TRUE)]

\* The failed responses that carry an error document.
ErrorResponses ==
    {[status |-> s, decodable |-> TRUE, data |-> ErrorBody(s)] : s \in FailureStatus}

\* A JSON scalar that int() accepts.
Numeric(x) ==
    \/ x.type = "int"
    \/ x.type = "str" /\ Len(x.s) > 0 /\ \A i \in 1..Len(x.s) : IsDigit(x.s[i])

\* C1: in a paged operation (get_pages, get_spaces, get_child_pages), when
\* the fetch fails (`response` is the reply to the last request issued, so no
\* fetch follows it) the operation fails too: it returns None or raises, and
\* hands back no entries.
C1_FailFast ==
    (call.op \in {"get_pages", "get_spaces", "get_child_pages"} /\ ~Ok(response))
        => result.t # "val"

\* C2: with no limit, over a non-empty source whose pages all arrive intact,
\* a listing returns every entry of the source, the k-th fetch asking for the
\* offset that the k-1 pages before it have covered.
C2_Exhaustion ==
    (/\ call.op \in {"get_pages", "get_spaces"}
     /\ ~call.limit.given /\ ~call.full
     /\ Len(Source) > 0 /\ IntactSource
     /\ GoodPage(response))
        => /\ result.t = "val"
           /\ result.kind = "list"
           /\ Len(result.v) = Len(Source)
           /\ \A k \in 1..Len(requests) :
                 Offset(requests[k]) = (k - 1) * PageSize(requests[k])

\* C3: when get_pages is given a limit and the source holds more entries than
\* the limit, it returns exactly the first `limit` entries.
C3_Limit ==
    (/\ call.op = "get_pages"
     /\ call.limit.given /\ ~call.full
     /\ Len(Source) > call.limit.n /\ IntactSource
     /\ GoodPage(response))
        => /\ result.t = "val"
           /\ result.kind = "list"
           /\ Len(result.v) = call.limit.n
           /\ \A i \in 1..Len(result.v) : result.v[i].id = Source[i].id

\* C4: check_response of a response that is not ok returns False through its
\* not-ok branch, whatever the status and the body: it never returns True,
\* never raises, and never reaches the inspection of `results`.
C4_NotOkIsFailed ==
    (Validated /\ ~Ok(response))
        => validation = [out |-> Ret("bool", FALSE), log |-> "Response not ok"]

\* C4 witness: a failed response whose body is a non-empty list was rejected.
C4_Witness ==
    /\ call.op = "get_page_id"
    /\ ~Ok(response)
    /\ ListShaped(response)
    /\ Len(response.data.results) > 0
    /\ validation.out = Ret("bool", FALSE)
    /\ result = None

\* C5: check_response of a successful response with an empty `results` list
\* returns a value that is neither the value for a valid response (True) nor
\* the value for a failed response.
C5_EmptyIsDistinct ==
    (Validated /\ Ok(response) /\ ListShaped(response)
       /\ Len(response.data.results) = 0)
        => /\ validation.out.t = "val"
           /\ validation.out.v # TRUE
           /\ \A f \in ErrorResponses :
                 ~SameOutcome(validation.out, check_response(f).out)

\* C6: check_response of a successful response whose body has no `results`
\* key returns True (valid): it neither rejects the response nor raises.
C6_EntityIsOk ==
    (Validated /\ Ok(response) /\ response.decodable
       /\ "results" \notin DOMAIN response.data)
        => validation.out = Ret("bool", TRUE)

\* C7: get_page on a successful response with an empty `results` list returns
\* the not-found value: it does not raise and returns no record.
C7_AbsentIsNotFound ==
    (call.op = "get_page" /\ ~call.full /\ Ok(response)
       /\ ListShaped(response) /\ Len(response.data.results) = 0)
        => result.t = "None"

\* C8: whenever the response of a lookup (get_page, get_page_id, get_spaces,
\* get_child_pages) is not ok, the outcome of the lookup differs from the
\* outcome the same lookup has on a successful response with an empty
\* `results` list.
C8_FailureIsNotEmpty ==
    (call.op \in {"get_page", "get_page_id", "get_spaces", "get_child_pages"}
       /\ ~Ok(response))
        => ~SameOutcome(result, Outcome(call.op, EmptyPage, call.full))

\* C9: get_page_id returns None for an empty `results` list, the integer
\* value of the first entry's id when the id is numeric, and raises
\* MalformedRecord when the id is present and not numeric.
C9_PageId ==
    (call.op = "get_page_id" /\ Ok(response) /\ ListShaped(response))
        => LET rs == response.data.results IN
           IF Len(rs) = 0 THEN result = None
           ELSE ("id" \in DOMAIN rs[1]) =>
                   IF Numeric(rs[1].id)
                   THEN /\ result.t = "val"
                        /\ result.kind = "int"
                        /\ result.v = IF rs[1].id.type = "int" THEN rs[1].id.n
                                      ELSE FromDigits(rs[1].id.s)
                   ELSE result = Raise("MalformedRecord")

\* C10: get_page on a first entry that has id, title, links.webui (and a
\* response that has links.base), with any of body, history.createdBy.username
\* and version.by.username absent, returns a record whose id, title and url
\* are not None and whose content, creator and modifier are None exactly when
\* the part is absent; it does not raise.
C10_NormalizeTotal ==
    (/\ call.op = "get_page" /\ ~call.full
     /\ GoodPage(response)
     /\ Len(response.data.results) > 0
     /\ response.data.results[1] \in OptionalShapes(1))
        => LET e == Val(response.data.results[1]) IN
           /\ result.t = "val"
           /\ result.kind = "dict"
           /\ result.v.id.t = "val"
           /\ result.v.title.t = "val"
           /\ result.v.url.t = "val"
           /\ result.v.content.t = "None"
                 <=> ~("body" \in DOMAIN e.v /\ "storage" \in DOMAIN e.v.body
                       /\ "value" \in DOMAIN e.v.body.storage)
           /\ result.v.creator.t = "None"
                 <=> ~("history" \in DOMAIN e.v
                       /\ "createdBy" \in DOMAIN e.v.history
                       /\ "username" \in DOMAIN e.v.history.createdBy)
           /\ result.v.modifier.t = "None"
                 <=> ~("by" \in DOMAIN e.v.version
                       /\ "username" \in DOMAIN e.v.version.by)


\* The integer a server-supplied number stands for.
NumberValue(num) == IF num.type = "int" THEN num.n ELSE FromDigits(num.s)

\* v is the text of the number num: a string of decimal digits whose value is
\* that of num, the very characters of num when num is text, and without a
\* leading zero when num is a number.
IsTextOf(v, num) ==
    /\ v.type = "str"
    /\ Len(v.s) > 0
    /\ \A i \in 1..Len(v.s) : IsDigit(v.s[i])
    /\ FromDigits(v.s) = NumberValue(num)
    /\ num.type = "str" => v.s = num.s
    /\ num.type = "int" => (Len(v.s) = 1 \/ v.s[1] # "0")

\* v is the integer the number num stands for.
IsIntegerOf(v, num) == v.type = "int" /\ v.n = NumberValue(num)

\* The first entry of the response has a version number.
FirstHasNumber ==
    /\ ListShaped(response)
    /\ Len(response.data.results) > 0
    /\ "version" \in DOMAIN response.data.results[1]
    /\ "number" \in DOMAIN response.data.results[1].version

C12_AllChildren ==
    (/\ call.op = "get_child_pages"
     /\ GoodPage(response)
     /\ IntactSource
     /\ Len(response.data.results) >= 2)
        => /\ result.t = "val"
           /\ result.kind = "list"
           /\ Len(result.v) = Len(response.data.results)
           /\ \A i \in 1..Len(result.v) :
                 /\ result.v[i].id = Val(response.data.results[i].id)
                 /\ result.v[i].title = Val(response.data.results[i].title)


\* The response is what a working server gives to the request: an intact page
\* of the collection the path names, a 404 error document for any other path.
Healthy ==
    IF Route(requests[1]) = "unknown"
    THEN response = [status |-> 404, decodable |-> TRUE, data |-> ErrorBody(404)]
    ELSE GoodPage(response)

C14_ClassDataUnchanged == DEFAULT_OPTIONS = ClassBody


\* The caller's limit cuts the listing short: the source holds more entries
\* than the limit allows (the case the result set reports as not complete).
StoppedByLimit == call.limit.given /\ Len(Source) > call.limit.n

\* C15: over a non-empty source whose pages arrive intact, get_pages returns
\* the source's entries in the server's order with none dropped, duplicated
\* or reordered: all of them when no limit cuts the listing short, exactly
\* the first `limit` of them when one does.
C15_CompleteIsExact ==
    (/\ call.op = "get_pages" /\ ~call.full
     /\ call.limit.given => call.limit.n >= 1
     /\ Len(Source) > 0 /\ IntactSource
     /\ GoodPage(response))
        => /\ result.t = "val"
           /\ result.kind = "list"
           /\ Len(result.v) <= Len(Source)
           /\ \A i \in 1..Len(result.v) : result.v[i].id = Source[i].id
           /\ StoppedByLimit => Len(result.v) = call.limit.n
           /\ ~StoppedByLimit => Len(result.v) = Len(Source)


\* C16: when the size of the source is an exact multiple of the page size
\* (0 included) and its pages arrive intact, get_pages without a limit
\* returns a list with every entry: an empty `results` list ends the listing
\* and is not answered as if nothing had been found or the fetch had failed.
C16_ExactMultiple ==
    (/\ call.op = "get_pages" /\ ~call.full /\ ~call.limit.given
     /\ Len(Source) % ServerDefaultLimit = 0
     /\ IntactSource
     /\ GoodPage(response))
        => /\ result.t = "val"
           /\ result.kind = "list"
           /\ Len(result.v) = Len(Source)


\* The entries of the response that the operation of the current call turns
\* into records: the first one for get_page, all of them for get_pages.
Normalized ==
    IF call.op = "get_page" THEN SubSeq(response.data.results, 1, 1)
    ELSE response.data.results

\* The response carries the base link and every such entry its web-UI link.
LinksPresent ==
    /\ "base" \in DOMAIN response.data.links
    /\ \A i \in 1..Len(Normalized) :
          /\ "links" \in DOMAIN Normalized[i]
          /\ "webui" \in DOMAIN Normalized[i].links

\* The url of every record returned for the current call is the base link
\* followed by the web-UI link of the record's entry.
UrlsAreCanonical ==
    LET url(i) == response.data.links.base \o Normalized[i].links.webui IN
    IF call.op = "get_page" THEN result.v.url = Val(url(1))
    ELSE /\ Len(result.v) = Len(Normalized)
         /\ \A i \in 1..Len(Normalized) : result.v[i].url = url(i)

\* C17: a record that get_page or get_pages returns has as url the base link
\* followed by the entry's web-UI link; when either link is absent from the
\* response, the operation fails with MalformedRecord.
C17_CanonicalUrl ==
    (/\ call.op \in {"get_page", "get_pages"} /\ ~call.full
     /\ Ok(response) /\ ListShaped(response)
     /\ Len(response.data.results) > 0)
        => /\ result.t = "val" => (LinksPresent /\ UrlsAreCanonical)
           /\ ~LinksPresent => result = Raise("MalformedRecord")

\* The response of the current call cut down to its first entry.
FirstOnly == [response EXCEPT !.data.results = SubSeq(@, 1, 1)]

\* C18: when the fetch of get_page returns several matching entries, the
\* outcome is the one the first entry alone gives: the record is built from
\* index 0 of `results`, and no later entry has a part in it.
C18_FirstInServerOrder ==
    (/\ call.op = "get_page" /\ ~call.full
     /\ Ok(response) /\ ListShaped(response)
     /\ Len(response.data.results) >= 2)
        => /\ result = get_page(FirstOnly, FALSE)
           /\ (result.t = "val" /\ "id" \in DOMAIN response.data.results[1])
                 => result.v.id = Val(response.data.results[1].id)

\* C18 witness: two entries with different ids and titles matched, and the
\* record returned carries the id and the title of the first.
C18_Witness ==
    /\ call.op = "get_page" /\ ~call.full
    /\ Ok(response) /\ ListShaped(response)
    /\ Len(response.data.results) >= 2
    /\ \A i \in 1..2 : {"id", "title"} \subseteq DOMAIN response.data.results[i]
    /\ response.data.results[1].id # response.data.results[2].id
    /\ response.data.results[1].title # response.data.results[2].title
    /\ result.t = "val"
    /\ result.kind = "dict"
    /\ result.v.id = Val(response.data.results[1].id)
    /\ result.v.title = Val(response.data.results[1].title)


====
